---- MODULE Spec2Model ----
(***************************************************************************)
(* Model of script/draft_manager.py (class FantasyDraftManager): the       *)
(* in-memory tables, the pending edits, the flush into the workbook and    *)
(* the restore-from-backup at process start.                               *)
(*                                                                         *)
(* Spec runs the menu loop with one action per handler; StepSpec runs      *)
(* save_spreadsheet statement by statement; QuerySpec calls the read-only  *)
(* methods (search, derived statistics, summary) on a range of workbooks;  *)
(* MarkSpec calls the two marking methods with every selection.            *)
(*                                                                         *)
(* Text is a sequence of one-character strings, so that lower(), strip(),  *)
(* split('/'), int() and the f-string formatting are computed and not      *)
(* assumed.  A cell is a record [t, s, n]: t = "s" a text cell with text   *)
(* s, t = "n" a numeric cell with value n, t = "e" an empty cell (None in  *)
(* openpyxl, NaN in pandas).                                               *)
(***************************************************************************)
EXTENDS Integers, Sequences, FiniteSets, TLC

\* ---------------------------------------------------------------- bounds
MaxSel == 2
MaxEdits == 2
MaxFlushes == 2
MaxFaults == 1
MaxRestarts == 1

\* ------------------------------------------------------------------ text
UpperChars == <<"A","B","C","D","E","F","G","H","I","J","K","L","M",
                "N","O","P","Q","R","S","T","U","V","W","X","Y","Z">>
LowerChars == <<"a","b","c","d","e","f","g","h","i","j","k","l","m",
                "n","o","p","q","r","s","t","u","v","w","x","y","z">>
DigitChars == <<"0","1","2","3","4","5","6","7","8","9">>

LowerChar(c) ==
    IF \E i \in 1..Len(UpperChars) : UpperChars[i] = c
    THEN LowerChars[CHOOSE i \in 1..Len(UpperChars) : UpperChars[i] = c]
    ELSE c

\* str.lower()
Lower(s) == [i \in 1..Len(s) |-> LowerChar(s[i])]

\* str.strip(): drop leading and trailing blanks
RECURSIVE LStrip(_)
LStrip(s) == IF s # <<>> /\ Head(s) = " " THEN LStrip(Tail(s)) ELSE s
RECURSIVE RStrip(_)
RStrip(s) == IF s # <<>> /\ s[Len(s)] = " " THEN RStrip(SubSeq(s, 1, Len(s) - 1)) ELSE s
Strip(s) == RStrip(LStrip(s))

\* str.contains(q, regex=False) and the operator "in" on strings
Contains(s, q) ==
    \E i \in 0..(Len(s) - Len(q)) : SubSeq(s, i + 1, i + Len(q)) = q

\* str.split('/'): the list of the parts between the slashes
RECURSIVE SplitSlash(_, _, _)
SplitSlash(s, cur, acc) ==
    IF s = <<>> THEN Append(acc, cur)
    ELSE IF Head(s) = "/" THEN SplitSlash(Tail(s), <<>>, Append(acc, cur))
    ELSE SplitSlash(Tail(s), Append(cur, Head(s)), acc)
Split(s) == SplitSlash(s, <<>>, <<>>)

IsDigit(c) == \E i \in 1..10 : DigitChars[i] = c
DigitVal(c) == (CHOOSE i \in 1..10 : DigitChars[i] = c) - 1

RECURSIVE DigitsVal(_, _)
DigitsVal(s, acc) ==
    IF s = <<>> THEN acc ELSE DigitsVal(Tail(s), 10 * acc + DigitVal(Head(s)))

\* int(s): blanks around the number and one sign are accepted; anything
\* else raises ValueError
IntBody(s) == IF s # <<>> /\ Head(s) \in {"-", "+"} THEN Tail(s) ELSE s
IntParses(s) ==
    LET b == IntBody(Strip(s))
    IN  b # <<>> /\ \A i \in 1..Len(b) : IsDigit(b[i])
IntOf(s) ==
    LET t == Strip(s)
        v == DigitsVal(IntBody(t), 0)
    IN  IF t # <<>> /\ Head(t) = "-" THEN 0 - v ELSE v

\* str(n) and f"{n}" of an integer
RECURSIVE NatStr(_)
NatStr(n) ==
    IF n < 10 THEN <<DigitChars[n + 1]>>
    ELSE Append(NatStr(n \div 10), DigitChars[(n % 10) + 1])
IntStr(n) == IF n < 0 THEN <<"-">> \o NatStr(0 - n) ELSE NatStr(n)

\* ----------------------------------------------------------------- cells
Txt(s) == [t |-> "s", s |-> s, n |-> 0]
Num(n) == [t |-> "n", s |-> <<>>, n |-> n]
Empty  == [t |-> "e", s |-> <<>>, n |-> 0]

\* str(value) of a cell value
StrOf(c) ==
    IF c.t = "s" THEN c.s
    ELSE IF c.t = "n" THEN IntStr(c.n)
    ELSE <<"N","o","n","e">>

\* Series.astype(str) of a pandas value: NaN becomes the text "nan"
AsTypeStr(c) ==
    IF c.t = "s" THEN c.s
    ELSE IF c.t = "n" THEN IntStr(c.n)
    ELSE <<"n","a","n">>

\* truthiness of a cell value: None, "" and 0 are falsy
Truthy(c) ==
    \/ c.t = "s" /\ c.s # <<>>
    \/ c.t = "n" /\ c.n # 0

EmptyMap == [x \in {} |-> 0]

\* dict d with d[k] = v set
MapSet(d, k, v) == [x \in (DOMAIN d) \cup {k} |-> IF x = k THEN v ELSE d[x]]

\* ------------------------------------------------------------- workbook
\* A workbook maps the names of its sheets to their data rows (the rows
\* under the header row); a row maps the sheet's columns to cells.  The
\* k-th data row is row k+1 of the worksheet and has pandas index k-1.
DecisionMatrix == "Decision Matrix"
SheetOrder == <<DecisionMatrix, "QBs", "RBs">>
PlayerCols == <<"Player", "Team", "Points">>
positions == <<"QB", "RB", "WR", "K", "D", "TE">>
MatrixCols == <<"Label">> \o positions
Columns(sheet_name) == IF sheet_name = DecisionMatrix THEN MatrixCols ELSE PlayerCols

position_map ==
    [sheet_name \in {"QBs", "RBs", "WRs", "Ks", "Ds", "TEs"} |->
        CASE sheet_name = "QBs" -> "QB"
          [] sheet_name = "RBs" -> "RB"
          [] sheet_name = "WRs" -> "WR"
          [] sheet_name = "Ks"  -> "K"
          [] sheet_name = "Ds"  -> "D"
          [] sheet_name = "TEs" -> "TE"]

\* pos_to_col maps a position to its worksheet column; column 1 is the label
pos_to_col == [position \in {"QB", "RB", "WR", "K", "D", "TE"} |->
                  1 + CHOOSE i \in 1..Len(positions) : positions[i] = position]

PlayerRow(player, team, points) ==
    [col \in {"Player", "Team", "Points"} |->
        IF col = "Player" THEN Txt(player)
        ELSE IF col = "Team" THEN Txt(team) ELSE Num(points)]

MatrixRow(label, qb, other) ==
    [col \in {"Label", "QB", "RB", "WR", "K", "D", "TE"} |->
        IF col = "Label" THEN Txt(label) ELSE IF col = "QB" THEN qb ELSE other]

QBRows == << PlayerRow(<<"A","l","i">>, <<"B","O","S">>, 30),
             PlayerRow(<<"B","o">>,     <<"N","Y">>,     28),
             PlayerRow(<<"D","e","e">>, <<"D","E","N">>, 25) >>
RBRows == << PlayerRow(<<"K","i","m">>, <<"S","F">>, 20),
             PlayerRow(<<"M","o","e">>, <<"S","F">>, 18) >>

MySquadLabel == <<"M","y"," ","s","q","u","a","d">>
SlipLabel    == <<"S","l","i","p">>
my_squad     == <<"m","y"," ","s","q","u","a","d">>
slip         == <<"s","l","i","p">>

MySquadRow(qb) == MatrixRow(MySquadLabel, qb, Txt(<<"0","/","2">>))
SlipRow        == MatrixRow(SlipLabel, Num(2), Num(1))

\* the shapes of the "my squad" cell of the QB column
QBCells == { Txt(<<"3","/","1","0">>),      \* well formed
             Empty,                          \* empty cell
             Txt(<<"x","/","1","0">>),      \* the left side is no integer
             Txt(<<"3">>),                   \* no slash
             Txt(<<"1","/","2","/","3">>) } \* more than one slash

Workbook(dm, qb) ==
    LET players == [sheet_name \in {"QBs", "RBs"} |->
                       IF sheet_name = "QBs" THEN QBRows ELSE RBRows]
    IN  IF dm = "absent" THEN players
        ELSE [sheet_name \in {DecisionMatrix, "QBs", "RBs"} |->
                 IF sheet_name # DecisionMatrix THEN players[sheet_name]
                 ELSE IF dm = "nosquad" THEN <<SlipRow>>
                 ELSE <<MySquadRow(qb), SlipRow>>]

\* the workbooks a session starts from
Scenarios ==
    {[dm |-> "full", qb |-> c, backup |-> FALSE] : c \in QBCells}
    \cup {[dm |-> "full", qb |-> Txt(<<"3","/","1","0">>), backup |-> TRUE],
          [dm |-> "nosquad", qb |-> Empty, backup |-> FALSE],
          [dm |-> "absent", qb |-> Empty, backup |-> FALSE]}

\* the names a user types into the search prompt
Queries == { <<"D","e">>, <<"B","o">>, <<"s"," ">> }
\* the numbers a user types at the slip prompts (a skipped prompt is absent)
SlipInputs == { ("QB" :> 1), ("QB" :> 3 @@ "RB" :> 1) }

\* ----------------------------------------------------------------- state
VARIABLES
    disk,               \* the primary workbook file (spreadsheet_path)
    readable,           \* FALSE when a failed write left the file damaged
    backup,             \* the backup file: [exists, wb]
    alive,              \* the process is running
    sheets_data,        \* self.sheets_data
    pending_deletions,  \* self.pending_deletions
    my_squad_updates,   \* self.my_squad_updates
    slip_updates,       \* self.slip_updates (no attribute = empty)
    last,               \* the last operation, its inputs, result and pre-state
    committed,          \* a flush of this or an earlier session has persisted
    pc,                 \* the statement of save_spreadsheet that runs next;
                        \* "menu" when the program waits at the menu
    workbook,           \* the openpyxl workbook object of the running flush
    returned,           \* what the last call of a read-only method returned
    nedits, nflush, nfaults, nrestarts

vars == <<disk, readable, backup, alive, sheets_data, pending_deletions,
          my_squad_updates, slip_updates, last, committed, pc, workbook, returned,
          nedits, nflush, nfaults, nrestarts>>

RECURSIVE ConcatMap(_, _)
ConcatMap(F(_), s) == IF s = <<>> THEN <<>> ELSE F(Head(s)) \o ConcatMap(F, Tail(s))

\* pd.ExcelFile(path).sheet_names
SheetNames(wb) == SelectSeq(SheetOrder, LAMBDA n : n \in DOMAIN wb)

\* pd.read_excel of every sheet: the data rows, indexed from 0
ReadExcel(wb) == [sheet_name \in DOMAIN wb |-> wb[sheet_name]]

\* df[col].dtype == 'object': the column holds at least one text value
IsObject(df, col) == \E i \in 1..Len(df) : df[i][col].t = "s"

search_player_by_last_name(sd, last_name) ==
    LET last_name_lower == Strip(Lower(last_name))
        InCol(sheet_name, col) ==
            LET df == sd[sheet_name]
                hit(i) == IF Contains(Lower(AsTypeStr(df[i][col])), last_name_lower)
                          THEN << [sheet |-> sheet_name, index |-> i - 1,
                                   row_data |-> df[i], matching_column |-> col] >>
                          ELSE <<>>
            IN  IF IsObject(df, col)
                THEN ConcatMap(hit, [i \in 1..Len(df) |-> i])
                ELSE <<>>
        InSheet(sheet_name) ==
            LET F(col) == InCol(sheet_name, col)
            IN  IF Len(sd[sheet_name]) = 0 THEN <<>>
                ELSE ConcatMap(F, Columns(sheet_name))
    IN  ConcatMap(InSheet, SheetNames(sd))

\* ------------------------------------------------------- pending edits
Selections(n) ==
    UNION {[1..k -> (0 - 1)..n] : k \in 1..MaxSel}

\* the test lets a negative index pass
InRangeBelow(ms, i) == i < Len(ms)

\* 0 <= i < len(matches)
InRange(ms, i) == 0 <= i /\ i < Len(ms)

\* matches[i]: a negative index counts from the end of the list
Item(ms, i) == ms[IF i < 0 THEN Len(ms) + i + 1 ELSE i + 1]

\* self.pending_deletions[sheet_name].append(excel_row), creating the list
AppendDeletion(pd, sheet_name, excel_row) ==
    MapSet(pd, sheet_name,
           Append(IF sheet_name \in DOMAIN pd THEN pd[sheet_name] ELSE <<>>, excel_row))

\* the pandas index of a row is 0-based and the sheet has a header row
ExcelRow(row_index) == row_index + 2

RECURSIVE remove_player_rows(_, _, _)
remove_player_rows(pd, ms, indices_to_remove) ==
    IF indices_to_remove = <<>> THEN [deletions |-> pd, count |-> 0]
    ELSE LET i == Head(indices_to_remove)
             match == Item(ms, i)
             pd1 == IF InRange(ms, i)
                    THEN AppendDeletion(pd, match.sheet, ExcelRow(match.index))
                    ELSE pd
             rest == remove_player_rows(pd1, ms, Tail(indices_to_remove))
         IN  [deletions |-> rest.deletions,
              count |-> rest.count + (IF InRange(ms, i) THEN 1 ELSE 0)]

\* the entry is set to 1 and not incremented
AddSquadOnce(sq, sheet_name) ==
    IF sheet_name \in DOMAIN position_map
    THEN MapSet(sq, position_map[sheet_name], 1)
    ELSE sq

\* self.my_squad_updates[position] += 1, creating the entry
AddSquad(sq, sheet_name) ==
    IF sheet_name \in DOMAIN position_map
    THEN LET position == position_map[sheet_name]
         IN  MapSet(sq, position,
                    (IF position \in DOMAIN sq THEN sq[position] ELSE 0) + 1)
    ELSE sq

RECURSIVE pick_player_for_team(_, _, _, _)
pick_player_for_team(pd, sq, ms, indices_to_pick) ==
    IF indices_to_pick = <<>> THEN [deletions |-> pd, squad |-> sq, count |-> 0]
    ELSE LET i == Head(indices_to_pick)
             match == Item(ms, i)
             pd1 == IF InRange(ms, i)
                    THEN AppendDeletion(pd, match.sheet, ExcelRow(match.index))
                    ELSE pd
             sq1 == IF InRange(ms, i) THEN AddSquad(sq, match.sheet) ELSE sq
             rest == pick_player_for_team(pd1, sq1, ms, Tail(indices_to_pick))
         IN  [deletions |-> rest.deletions, squad |-> rest.squad,
              count |-> rest.count + (IF InRange(ms, i) THEN 1 ELSE 0)]

\* a value that is already pending for a position is kept
DictUpdateKeepFirst(d, e) ==
    [x \in (DOMAIN d) \cup (DOMAIN e) |-> IF x \in DOMAIN d THEN d[x] ELSE e[x]]

\* dict.update
DictUpdate(d, e) ==
    [x \in (DOMAIN d) \cup (DOMAIN e) |-> IF x \in DOMAIN e THEN e[x] ELSE d[x]]

\* ----------------------------------------------------------------- flush
\* list.sort(reverse=True)
RECURSIVE InsertDesc(_, _)
InsertDesc(x, s) ==
    IF s = <<>> THEN <<x>>
    ELSE IF x >= Head(s) THEN <<x>> \o s
    ELSE <<Head(s)>> \o InsertDesc(x, Tail(s))
RECURSIVE SortDesc(_)
SortDesc(s) == IF s = <<>> THEN <<>> ELSE InsertDesc(Head(s), SortDesc(Tail(s)))

\* worksheet.delete_rows(row_num): the rows below move up; a row number
\* past the last row deletes nothing
delete_rows(rows, row_num) ==
    LET k == row_num - 1
    IN  IF 1 <= k /\ k <= Len(rows)
        THEN SubSeq(rows, 1, k - 1) \o SubSeq(rows, k + 1, Len(rows))
        ELSE rows

RECURSIVE DeleteEach(_, _)
DeleteEach(rows, rows_to_delete) ==
    IF rows_to_delete = <<>> THEN rows
    ELSE DeleteEach(delete_rows(rows, Head(rows_to_delete)), Tail(rows_to_delete))

\* the rows are deleted in the order in which they were marked
DeletionOrderAsMarked(rows_to_delete) == rows_to_delete

\* the order in which the flush deletes the marked rows of one sheet
DeletionOrder(rows_to_delete) == SortDesc(rows_to_delete)

ProcessDeletions(wb, pd) ==
    [sheet_name \in DOMAIN wb |->
        IF sheet_name \in DOMAIN pd
        THEN DeleteEach(wb[sheet_name], DeletionOrder(pd[sheet_name]))
        ELSE wb[sheet_name]]

\* rows_to_delete.sort() sorts the pending list itself
SortedInPlace(wb, pd) ==
    [sheet_name \in DOMAIN pd |->
        IF sheet_name \in DOMAIN wb THEN DeletionOrder(pd[sheet_name])
        ELSE pd[sheet_name]]

\* the first row whose column A reads label; 0 when there is none
FindRow(rows, label) ==
    LET hit(i) == /\ Truthy(rows[i]["Label"])
                  /\ Lower(Strip(StrOf(rows[i]["Label"]))) = label
    IN  IF \E i \in 1..Len(rows) : hit(i)
        THEN CHOOSE i \in 1..Len(rows) : hit(i) /\ \A j \in 1..(i - 1) : ~hit(j)
        ELSE 0

CurrentValue(cell) == IF Truthy(cell) THEN StrOf(cell) ELSE <<"0","/","0">>

\* the "X/Y" update raises ValueError: the unpacking of split('/') needs
\* two parts and int() needs an integer
CounterRaises(cell) ==
    LET current_value == CurrentValue(cell)
        parts == Split(current_value)
    IN  /\ Contains(current_value, <<"/">>)
        /\ (Len(parts) # 2 \/ ~IntParses(parts[1]))

\* the new count replaces the old one and is not added to it
NewCounterCellNoAdd(cell, count_change) ==
    LET current_value == CurrentValue(cell)
        parts == Split(current_value)
    IN  IF Contains(current_value, <<"/">>)
        THEN Txt(IntStr(count_change) \o <<"/">> \o parts[2])
        ELSE cell

NewCounterCell(cell, count_change) ==
    LET current_value == CurrentValue(cell)
        parts == Split(current_value)
    IN  IF Contains(current_value, <<"/">>)
        THEN Txt(IntStr(IntOf(parts[1]) + count_change) \o <<"/">> \o parts[2])
        ELSE cell

\* a missing "my squad" row raises
UpdateSquadCountsRaising(rows, sq) ==
    LET r == FindRow(rows, my_squad)
    IN  IF r = 0 \/ \E position \in DOMAIN sq : CounterRaises(rows[r][position])
        THEN [raised |-> TRUE, rows |-> rows]
        ELSE [raised |-> FALSE,
              rows |-> [rows EXCEPT ![r] =
                          [col \in DOMAIN rows[r] |->
                              IF col \in DOMAIN sq
                              THEN NewCounterCell(rows[r][col], sq[col])
                              ELSE rows[r][col]]]]

UpdateSquadCounts(rows, sq) ==
    LET r == FindRow(rows, my_squad)
    IN  IF r = 0 THEN [raised |-> FALSE, rows |-> rows]
        ELSE IF \E position \in DOMAIN sq : CounterRaises(rows[r][position])
        THEN [raised |-> TRUE, rows |-> rows]
        ELSE [raised |-> FALSE,
              rows |-> [rows EXCEPT ![r] =
                          [col \in DOMAIN rows[r] |->
                              IF col \in DOMAIN sq
                              THEN NewCounterCell(rows[r][col], sq[col])
                              ELSE rows[r][col]]]]

UpdateSlipCells(rows, sl) ==
    LET r == FindRow(rows, slip)
    IN  IF r = 0 THEN rows
        ELSE [rows EXCEPT ![r] =
                [col \in DOMAIN rows[r] |->
                    IF col \in DOMAIN sl THEN Num(sl[col]) ELSE rows[r][col]]]

\* the tables are not read again
RefreshedNothing(sd, wb, k) == sd

\* _refresh_pandas_data stopped by an error after k sheets
Refreshed(sd, wb, k) ==
    LET names == SheetNames(wb)
        done == {names[i] : i \in 1..k}
    IN  [sheet_name \in (DOMAIN sd) \cup done |->
            IF sheet_name \in done THEN ReadExcel(wb)[sheet_name] ELSE sd[sheet_name]]

\* the in-range entries of a selection: the sheet, the index and the row
\* payload of the match records the user chose
Marks(ms, sel) ==
    LET pair(i) == IF InRange(ms, i)
                   THEN << [sheet |-> ms[i + 1].sheet, index |-> ms[i + 1].index,
                            row_data |-> ms[i + 1].row_data] >>
                   ELSE <<>>
    IN  ConcatMap(pair, sel)

NoEdits == [deletions |-> EmptyMap, squad |-> EmptyMap, slips |-> EmptyMap]

Pending == [deletions |-> pending_deletions, squad |-> my_squad_updates,
            slips |-> slip_updates]

\* last: the handler that ran last (op), the in-range part of its selection
\* (marks), the count it returned, the pending edits before it (before) and
\* after its marking, when its flush began (marked), the workbook before it
\* (disk), how its flush ended (outcome; "" when the handler did not flush)
\* and the failure of the environment during that flush (fault)
NoOp == [op |-> "init", outcome |-> "", fault |-> "", count |-> 0, marks |-> <<>>,
         before |-> NoEdits, marked |-> NoEdits, disk |-> EmptyMap]

\* no read-only method has been called yet
NotCalled == [call |-> "none"]

Init ==
    \E sc \in Scenarios :
        /\ disk = Workbook(sc.dm, sc.qb)
        /\ readable = TRUE
        /\ backup = [exists |-> sc.backup,
                     wb |-> IF sc.backup THEN Workbook(sc.dm, sc.qb) ELSE EmptyMap]
        /\ alive = TRUE
        /\ sheets_data = ReadExcel(Workbook(sc.dm, sc.qb))
        /\ pending_deletions = EmptyMap
        /\ my_squad_updates = EmptyMap
        /\ slip_updates = EmptyMap
        /\ last = NoOp
        /\ committed = FALSE
        /\ pc = "menu"
        /\ workbook = EmptyMap
        /\ returned = NotCalled
        /\ nedits = 0 /\ nflush = 0 /\ nfaults = 0 /\ nrestarts = 0

Faults(S) == IF nfaults < MaxFaults THEN S ELSE {}

\* the slip updates are not cleared
ClearPendingKeepSlips(p) == [NoEdits EXCEPT !.slips = p.slips]

\* the pending changes are cleared after the reload
ClearPending(p) == NoEdits

\* the edits reach the file although the flush raised
FileAfterAbortWritten(file, edited) == edited

\* the edits are made on the workbook object of load_workbook; the file
\* changes only in workbook.save, so a flush that raises before it leaves
\* the file as it was
FileAfterAbort(file, edited) == file

\* save_spreadsheet with the pending edits p, when its environment fails at
\* step fault ("none": no failure): the state it leaves behind
save_spreadsheet(p, fault, damaged, k) ==
    LET opened == readable /\ fault # "open"
        wb1 == ProcessDeletions(disk, p.deletions)
        pd1 == SortedInPlace(disk, p.deletions)
        counting == p.squad # EmptyMap /\ DecisionMatrix \in DOMAIN wb1
        counts == IF counting
                  THEN UpdateSquadCounts(wb1[DecisionMatrix], p.squad)
                  ELSE [raised |-> FALSE, rows |-> <<>>]
        wb2 == IF counting THEN [wb1 EXCEPT ![DecisionMatrix] = counts.rows] ELSE wb1
        wb3 == IF p.slips # EmptyMap /\ DecisionMatrix \in DOMAIN wb2
               THEN [wb2 EXCEPT ![DecisionMatrix] =
                        UpdateSlipCells(wb2[DecisionMatrix], p.slips)]
               ELSE wb2
        retained == [p EXCEPT !.deletions = pd1]
    IN  IF ~opened THEN
            [outcome |-> "open_failed", disk |-> disk, readable |-> readable,
             sheets_data |-> sheets_data, pending |-> p]
        ELSE IF fault = "edit" \/ counts.raised THEN
            [outcome |-> "edit_failed", disk |-> FileAfterAbort(disk, wb2),
             readable |-> readable, sheets_data |-> sheets_data, pending |-> retained]
        ELSE IF fault = "save" THEN
            [outcome |-> "save_failed", disk |-> disk, readable |-> ~damaged,
             sheets_data |-> sheets_data, pending |-> retained]
        ELSE IF fault = "close" THEN
            [outcome |-> "close_failed", disk |-> wb3, readable |-> TRUE,
             sheets_data |-> sheets_data, pending |-> retained]
        ELSE IF fault = "reload" THEN
            [outcome |-> "reload_failed", disk |-> wb3, readable |-> TRUE,
             sheets_data |-> Refreshed(sheets_data, wb3, k),
             pending |-> ClearPending(retained)]
        ELSE
            [outcome |-> "ok", disk |-> wb3, readable |-> TRUE,
             sheets_data |-> Refreshed(sheets_data, wb3, Len(SheetNames(wb3))),
             pending |-> ClearPending(retained)]

Persisted(outcome) == outcome \in {"ok", "close_failed", "reload_failed"}

\* the handler returns to the menu without calling save_spreadsheet
FlushStepSkipped(p, info, fault, damaged, k) ==
    /\ fault = "none"
    /\ pending_deletions' = p.deletions
    /\ my_squad_updates' = p.squad
    /\ slip_updates' = p.slips
    /\ last' = [info EXCEPT !.marked = p]
    /\ UNCHANGED <<disk, readable, sheets_data, committed, nflush, nfaults>>

\* the handler's call of save_spreadsheet with the pending edits p; info is
\* what the handler did before
FlushStep(p, info, fault, damaged, k) ==
    /\ nflush < MaxFlushes
    /\ \E e \in {save_spreadsheet(p, fault, damaged, k)} :
        /\ disk' = e.disk
        /\ readable' = e.readable
        /\ sheets_data' = e.sheets_data
        /\ pending_deletions' = e.pending.deletions
        /\ my_squad_updates' = e.pending.squad
        /\ slip_updates' = e.pending.slips
        /\ last' = [info EXCEPT !.outcome = e.outcome, !.marked = p,
                                !.fault = IF readable THEN fault ELSE "unreadable"]
        /\ committed' = (committed \/ Persisted(e.outcome))
        /\ nflush' = nflush + 1
        /\ nfaults' = IF fault = "none" THEN nfaults ELSE nfaults + 1

Flush(p, info) ==
    \/ FlushStep(p, info, "none", FALSE, 0)
    \/ \E fault \in Faults({"open", "edit", "close"}) : FlushStep(p, info, fault, FALSE, 0)
    \/ \E damaged \in BOOLEAN :
          \E fault \in Faults({"save"}) : FlushStep(p, info, fault, damaged, 0)
    \/ \E k \in 0..(Cardinality(DOMAIN disk) - 1) :
          \E fault \in Faults({"reload"}) : FlushStep(p, info, fault, FALSE, k)

\* the handler returns to the menu without a flush
NoFlush(p, info) ==
    /\ last' = [info EXCEPT !.marked = p]
    /\ UNCHANGED <<disk, readable, sheets_data, pending_deletions, my_squad_updates,
                   slip_updates, committed, nflush, nfaults>>

\* the edits and the flushes of a run are capped
CanEdit == nedits < MaxEdits /\ nflush < MaxFlushes

\* menu choice 3: search, select, remove_player_rows, save_spreadsheet
ChooseRemove ==
    /\ alive
    /\ CanEdit
    /\ \E q \in Queries :
        \E ms \in {search_player_by_last_name(sheets_data, q)} :
        \E sel \in Selections(Len(ms)) :
            /\ ms # <<>>
            /\ \E r \in {remove_player_rows(pending_deletions, ms, sel)} :
                /\ nedits + r.count <= MaxEdits
                /\ nedits' = nedits + r.count
                /\ LET info == [NoOp EXCEPT !.op = "remove", !.count = r.count,
                                            !.marks = Marks(ms, sel),
                                            !.before = Pending, !.disk = disk]
                       p == [Pending EXCEPT !.deletions = r.deletions]
                   IN  IF r.count > 0 THEN Flush(p, info) ELSE NoFlush(p, info)
    /\ UNCHANGED <<backup, alive, nrestarts, pc, workbook, returned>>

\* menu choice 4: search, select, pick_player_for_team, save_spreadsheet
ChoosePick ==
    /\ alive
    /\ CanEdit
    /\ \E q \in Queries :
        \E ms \in {search_player_by_last_name(sheets_data, q)} :
        \E sel \in Selections(Len(ms)) :
            /\ ms # <<>>
            /\ \E r \in {pick_player_for_team(pending_deletions, my_squad_updates, ms, sel)} :
                /\ nedits + r.count <= MaxEdits
                /\ nedits' = nedits + r.count
                /\ LET info == [NoOp EXCEPT !.op = "pick", !.count = r.count,
                                            !.marks = Marks(ms, sel),
                                            !.before = Pending, !.disk = disk]
                       p == [Pending EXCEPT !.deletions = r.deletions,
                                            !.squad = r.squad]
                   IN  IF r.count > 0 THEN Flush(p, info) ELSE NoFlush(p, info)
    /\ UNCHANGED <<backup, alive, nrestarts, pc, workbook, returned>>

\* menu choice 5: update_slip_values, save_spreadsheet
ChooseSlip ==
    /\ alive
    /\ CanEdit
    /\ DecisionMatrix \in DOMAIN sheets_data
    /\ nedits' = nedits + 1
    /\ \E input \in SlipInputs :
        Flush([Pending EXCEPT !.slips = DictUpdate(slip_updates, input)],
              [NoOp EXCEPT !.op = "slip", !.before = Pending, !.disk = disk])
    /\ UNCHANGED <<backup, alive, nrestarts, pc, workbook, returned>>

NothingPending ==
    pending_deletions = EmptyMap /\ my_squad_updates = EmptyMap /\ slip_updates = EmptyMap

\* the test save_spreadsheet starts with is missing
HasChangesAlways(p) == TRUE

\* not (not pending_deletions and not my_squad_updates and not has_slip_updates)
HasChanges(p) ==
    p.deletions # EmptyMap \/ p.squad # EmptyMap \/ p.slips # EmptyMap

\* save_spreadsheet called with nothing pending: it returns after its test,
\* before the workbook is opened
SaveNoChanges ==
    /\ alive
    /\ nflush < MaxFlushes
    /\ NothingPending
    /\ \E e \in {IF HasChanges(Pending)
                 THEN save_spreadsheet(Pending, "none", FALSE, 0)
                 ELSE [outcome |-> "noop", disk |-> disk, readable |-> readable,
                       sheets_data |-> sheets_data, pending |-> Pending]} :
        /\ disk' = e.disk
        /\ readable' = e.readable
        /\ sheets_data' = e.sheets_data
        /\ pending_deletions' = e.pending.deletions
        /\ my_squad_updates' = e.pending.squad
        /\ slip_updates' = e.pending.slips
        /\ last' = [NoOp EXCEPT !.op = "save", !.outcome = e.outcome, !.disk = disk,
                                !.before = Pending, !.marked = Pending]
        /\ committed' = (committed \/ Persisted(e.outcome))
        /\ nflush' = IF e.outcome = "noop" THEN nflush ELSE nflush + 1
    /\ UNCHANGED <<backup, alive, nedits, nfaults, nrestarts, pc, workbook, returned>>

\* the process ends and a new one is constructed: __init__, load_spreadsheet
Restart ==
    /\ nrestarts < MaxRestarts
    /\ \E fault \in {"none"} \cup Faults({"restore", "load"}) :
        LET restored == backup.exists /\ fault # "restore"
            disk1 == IF restored THEN backup.wb ELSE disk
            readable1 == restored \/ readable
            loaded == readable1 /\ fault # "load"
        IN  /\ disk' = disk1
            /\ readable' = readable1
            /\ alive' = loaded
            /\ sheets_data' = IF loaded THEN ReadExcel(disk1) ELSE EmptyMap
            /\ last' = [NoOp EXCEPT !.op = "start", !.disk = disk,
                                    !.outcome = IF loaded THEN "ok" ELSE "exit"]
            /\ nfaults' = IF fault = "none" THEN nfaults ELSE nfaults + 1
    /\ pending_deletions' = EmptyMap
    /\ my_squad_updates' = EmptyMap
    /\ slip_updates' = EmptyMap
    /\ nrestarts' = nrestarts + 1
    /\ UNCHANGED <<backup, committed, nedits, nflush, pc, workbook, returned>>

Next == ChooseRemove \/ ChoosePick \/ ChooseSlip \/ SaveNoChanges \/ Restart

Spec == Init /\ [][Next]_vars

\* ------------------------------------------------------- derived stats
NA == <<"N","/","A">>
top_player   == <<"t","o","p","_","p","l","a","y","e","r">>
lower_player == <<"l","o","w","e","r","_","p","l","a","y","e","r">>
diff         == <<"d","i","f","f">>

\* str(col) of a column name
ColumnText(col) ==
    CASE col = "Player" -> <<"P","l","a","y","e","r">>
      [] col = "Team"   -> <<"T","e","a","m">>
      [] col = "Points" -> <<"P","o","i","n","t","s">>
      [] col = "Label"  -> <<"L","a","b","e","l">>
      [] col = "QB"     -> <<"Q","B">>
      [] col = "RB"     -> <<"R","B">>
      [] col = "WR"     -> <<"W","R">>
      [] col = "K"      -> <<"K">>
      [] col = "D"      -> <<"D">>
      [] col = "TE"     -> <<"T","E">>

PointsTerms == { <<"p","o","i","n","t">>,
                 <<"p","r","o","j","e","c","t","e","d">>,
                 <<"s","e","a","s","o","n">> }

sheet_map ==
    [position \in {"QB", "RB", "WR", "K", "D", "TE"} |->
        CHOOSE sheet_name \in DOMAIN position_map : position_map[sheet_name] = position]

\* the first column whose name contains one of the terms; <<>> when none does
PointsCol(sheet_name) ==
    SelectSeq(Columns(sheet_name),
              LAMBDA col : \E term \in PointsTerms : Contains(Lower(ColumnText(col)), term))

\* sort_values(by=points_col, ascending=False) and the filter pd.notna: the
\* present values of the column, the highest first
RankedPoints(df, col) ==
    LET present == SelectSeq(df, LAMBDA row : row[col].t = "n")
    IN  SortDesc([i \in 1..Len(present) |-> present[i][col].n])

\* _get_slip_value: <<n>> for the value n, <<>> for None
RECURSIVE SlipFrom(_, _)
SlipFrom(rows, position) ==
    IF rows = <<>> THEN <<>>
    ELSE LET row == Head(rows)
             slip_val == row[position]
         IN  IF /\ row["Label"].t # "e"
                /\ Lower(Strip(AsTypeStr(row["Label"]))) = slip
                /\ slip_val.t # "e"
             THEN IF slip_val.t = "n" THEN << slip_val.n >>
                  ELSE IF IntParses(slip_val.s) THEN << IntOf(slip_val.s) >>
                  ELSE <<>>
             ELSE SlipFrom(Tail(rows), position)

_get_slip_value(sd, position) ==
    IF DecisionMatrix \in DOMAIN sd THEN SlipFrom(sd[DecisionMatrix], position) ELSE <<>>

NotAvailable == [top_player |-> NA, lower_player |-> NA, diff |-> NA]

\* the body of the loop of _compute_decision_matrix_values for one position
ComputeFor(sd, pos) ==
    LET df == sd[sheet_map[pos]]
        points_col == PointsCol(sheet_map[pos])
        df_sorted == RankedPoints(df, points_col[1])
        slip_value == _get_slip_value(sd, pos)
    IN  IF Len(df) = 0 \/ points_col = <<>> THEN NotAvailable
        ELSE IF Len(df_sorted) = 0 THEN NotAvailable
        ELSE IF slip_value # <<>> /\ slip_value[1] > 0 /\ Len(df_sorted) > slip_value[1]
        THEN [top_player |-> IntStr(df_sorted[1]),
              lower_player |-> IntStr(df_sorted[slip_value[1] + 1]),
              diff |-> IntStr(df_sorted[1] - df_sorted[slip_value[1] + 1])]
        ELSE [top_player |-> IntStr(df_sorted[1]), lower_player |-> NA, diff |-> NA]

\* computed_data, keyed by position: a position whose sheet is not loaded
\* has no entry
_compute_decision_matrix_values(sd) ==
    [pos \in {position \in DOMAIN sheet_map : sheet_map[position] \in DOMAIN sd} |->
        ComputeFor(sd, pos)]

\* the last row of the sheet whose column A reads label; 0 when there is none
LastRow(rows, label) ==
    LET hit(i) == /\ Truthy(rows[i]["Label"])
                  /\ Lower(Strip(StrOf(rows[i]["Label"]))) = label
    IN  IF \E i \in 1..Len(rows) : hit(i)
        THEN CHOOSE i \in 1..Len(rows) : hit(i) /\ \A j \in (i + 1)..Len(rows) : ~hit(j)
        ELSE 0

\* data[row_label] of _get_calculated_decision_matrix_data: the values of the
\* row by position, 'N/A' for an empty cell; no entries without such a row
CalculatedRow(rows, label) ==
    LET r == LastRow(rows, label)
    IN  IF r = 0 THEN EmptyMap
        ELSE [pos \in DOMAIN sheet_map |->
                 IF rows[r][pos].t = "e" THEN Txt(NA) ELSE rows[r][pos]]

\* << data >>, or <<>> for None when the workbook could not be read
_get_calculated_decision_matrix_data(wb, failed) ==
    IF failed \/ DecisionMatrix \notin DOMAIN wb THEN <<>>
    ELSE << [row_label \in {top_player, lower_player, diff} |->
                CalculatedRow(wb[DecisionMatrix], row_label)] >>

\* calculated_data[row_label].get(pos) in [None, 'N/A']
Placeholder(data, row_label, pos) ==
    pos \notin DOMAIN data[row_label] \/ data[row_label][pos] = Txt(NA)

\* calculated_data[row_label].get(pos, 'N/A'), as it is printed
StoredText(data, row_label, pos) ==
    IF pos \in DOMAIN data[row_label] THEN StrOf(data[row_label][pos]) ELSE NA

\* the three statistics show_summary prints for every position; <<>> when
\* there is no Decision Matrix in sheets_data
show_summary(wb, sd, failed) ==
    IF DecisionMatrix \notin DOMAIN sd THEN <<>>
    ELSE LET calculated_data == _get_calculated_decision_matrix_data(wb, failed)
             computing == \/ calculated_data = <<>>
                          \/ \A pos \in DOMAIN sheet_map :
                                Placeholder(calculated_data[1], top_player, pos)
             computed_data == _compute_decision_matrix_values(sd)
         IN  << [pos \in DOMAIN sheet_map |->
                   IF calculated_data # <<>>
                      /\ ~Placeholder(calculated_data[1], top_player, pos)
                   THEN [top_player |-> StoredText(calculated_data[1], top_player, pos),
                         lower_player |-> StoredText(calculated_data[1], lower_player, pos),
                         diff |-> StoredText(calculated_data[1], diff, pos)]
                   ELSE IF computing /\ pos \in DOMAIN computed_data
                   THEN computed_data[pos]
                   ELSE NotAvailable] >>

\* ------------------------------------------------- the read-only methods
\* The workbooks on which the read-only methods are called: the slip cell of
\* the QB column, the stored statistics rows and the rows of the sheet QBs vary.
SlipCells == { Num(0), Num(1), Num(2), Num(5), Empty, Txt(<<"x">>) }

StatRow(label, qb, other) == MatrixRow(label, qb, other)

StoredStats ==
    { <<>>,
      << StatRow(top_player, Empty, Empty), StatRow(lower_player, Empty, Empty),
         StatRow(diff, Empty, Empty) >>,
      << StatRow(top_player, Num(31), Empty), StatRow(lower_player, Num(26), Empty),
         StatRow(diff, Num(5), Empty) >>,
      << StatRow(top_player, Num(31), Num(21)), StatRow(lower_player, Num(26), Num(19)),
         StatRow(diff, Num(5), Num(2)) >> }

\* rows that are not in the order of their points, with a tie and with a
\* row without points
UnrankedRows == << PlayerRow(<<"B","o">>,     <<"N","Y">>,     28),
                   PlayerRow(<<"A","l","i">>, <<"B","O","S">>, 30),
                   [PlayerRow(<<"Z","e","d">>, <<"S","F">>, 0) EXCEPT !["Points"] = Empty],
                   PlayerRow(<<"D","e","e">>, <<"D","E","N">>, 28) >>

QBSheets == { QBRows, UnrankedRows, <<>> }

QueryWorkbooks ==
    { [sheet_name \in {DecisionMatrix, "QBs", "RBs"} |->
          IF sheet_name = "QBs" THEN qb
          ELSE IF sheet_name = "RBs" THEN RBRows
          ELSE << MySquadRow(Txt(<<"3","/","1","0">>)),
                  MatrixRow(SlipLabel, slip_cell, Num(1)) >> \o stats]
      : slip_cell \in SlipCells, stats \in StoredStats, qb \in QBSheets }
    \cup { Workbook("absent", Empty) }

\* the names given to search_player_by_last_name
SearchQueries == Queries \cup { <<>>, <<" ">>, <<"3","0">>, <<"z">> }

QueryInit ==
    \E wb \in QueryWorkbooks :
        /\ disk = wb
        /\ readable = TRUE
        /\ backup = [exists |-> FALSE, wb |-> EmptyMap]
        /\ alive = TRUE
        /\ sheets_data = ReadExcel(wb)
        /\ pending_deletions = EmptyMap
        /\ my_squad_updates = EmptyMap
        /\ slip_updates = EmptyMap
        /\ last = NoOp
        /\ committed = FALSE
        /\ pc = "menu"
        /\ workbook = EmptyMap
        /\ returned = NotCalled
        /\ nedits = 0 /\ nflush = 0 /\ nfaults = 0 /\ nrestarts = 0

ReadOnly ==
    UNCHANGED <<disk, readable, backup, alive, sheets_data, pending_deletions,
                my_squad_updates, slip_updates, last, committed, pc, workbook,
                nedits, nflush, nfaults, nrestarts>>

\* a call of search_player_by_last_name
SearchPlayer ==
    /\ alive /\ pc = "menu"
    /\ \E last_name \in SearchQueries :
          returned' = [call |-> "search", last_name |-> last_name,
                       matches |-> search_player_by_last_name(sheets_data, last_name)]
    /\ ReadOnly

\* a call of _compute_decision_matrix_values
ComputeValues ==
    /\ alive /\ pc = "menu"
    /\ returned' = [call |-> "compute",
                    computed_data |-> _compute_decision_matrix_values(sheets_data)]
    /\ ReadOnly

\* menu choice 6: show_summary; the read of the calculated values may fail
ShowSummary ==
    /\ alive /\ pc = "menu"
    /\ \E failed \in BOOLEAN :
          returned' = [call |-> "summary", failed |-> failed,
                       shown |-> show_summary(disk, sheets_data, failed)]
    /\ ReadOnly

QueryNext == SearchPlayer \/ ComputeValues \/ ShowSummary

QuerySpec == QueryInit /\ [][QueryNext]_vars

\* ------------------------------------------- the flush, step by step
\* save_spreadsheet statement by statement: pc names the statement that runs
\* next and workbook is the object load_workbook returned.  A statement that
\* raises ends the flush in the except clause and the program is back at
\* the menu.
FlushSteps == << "load_workbook", "delete_rows", "squad_counts", "slip_values",
                 "save", "close", "refresh", "clear" >>

\* the workbook is saved right after the deletions
StepAfterSaveEarly(step) ==
    IF step = "delete_rows" THEN "save"
    ELSE IF step = "clear" THEN "menu"
    ELSE FlushSteps[1 + CHOOSE i \in 1..Len(FlushSteps) : FlushSteps[i] = step]

\* the statement that follows a statement that did not raise
StepAfter(step) ==
    IF step = "clear" THEN "menu"
    ELSE FlushSteps[1 + CHOOSE i \in 1..Len(FlushSteps) : FlushSteps[i] = step]

\* what the handlers of the menu choices 3, 4 and 5 leave pending when
\* they call save_spreadsheet
Handled ==
    LET found == {search_player_by_last_name(sheets_data, q) : q \in Queries} \ {<<>>}
        removed(ms, sel) ==
            LET r == remove_player_rows(pending_deletions, ms, sel)
            IN  [count |-> r.count,
                 p |-> [Pending EXCEPT !.deletions = r.deletions],
                 info |-> [NoOp EXCEPT !.op = "remove", !.count = r.count,
                                       !.marks = Marks(ms, sel),
                                       !.before = Pending, !.disk = disk]]
        picked(ms, sel) ==
            LET r == pick_player_for_team(pending_deletions, my_squad_updates, ms, sel)
            IN  [count |-> r.count,
                 p |-> [Pending EXCEPT !.deletions = r.deletions, !.squad = r.squad],
                 info |-> [NoOp EXCEPT !.op = "pick", !.count = r.count,
                                       !.marks = Marks(ms, sel),
                                       !.before = Pending, !.disk = disk]]
        slipped(input) ==
            [count |-> 1,
             p |-> [Pending EXCEPT !.slips = DictUpdate(slip_updates, input)],
             info |-> [NoOp EXCEPT !.op = "slip", !.before = Pending, !.disk = disk]]
    IN  UNION {{removed(ms, sel) : sel \in Selections(Len(ms))} : ms \in found}
        \cup UNION {{picked(ms, sel) : sel \in Selections(Len(ms))} : ms \in found}
        \cup (IF DecisionMatrix \in DOMAIN sheets_data
              THEN {slipped(input) : input \in SlipInputs} ELSE {})

\* a handler has marked its edits and calls save_spreadsheet
CallSave ==
    /\ alive /\ pc = "menu" /\ CanEdit
    /\ \E h \in Handled :
        /\ h.count > 0
        /\ nedits + h.count <= MaxEdits
        /\ nedits' = nedits + h.count
        /\ pending_deletions' = h.p.deletions
        /\ my_squad_updates' = h.p.squad
        /\ slip_updates' = h.p.slips
        /\ last' = [h.info EXCEPT !.marked = h.p, !.fault = "none"]
    /\ pc' = "load_workbook"
    /\ UNCHANGED <<disk, readable, backup, alive, sheets_data, committed, workbook,
                   returned, nflush, nfaults, nrestarts>>

\* the statement raised: the except clause prints and the flush is over
Raise(outcome, fault) ==
    /\ pc' = "menu"
    /\ workbook' = EmptyMap
    /\ last' = [last EXCEPT !.outcome = outcome, !.fault = fault]
    /\ nflush' = nflush + 1
    /\ nfaults' = IF fault \in {"unreadable", "none"} THEN nfaults ELSE nfaults + 1

Proceed == pc' = StepAfter(pc) /\ UNCHANGED <<last, nflush, nfaults>>

\* workbook = openpyxl.load_workbook(self.spreadsheet_path)
LoadWorkbook ==
    /\ pc = "load_workbook"
    /\ \/ readable /\ workbook' = disk /\ Proceed
       \/ ~readable /\ Raise("open_failed", "unreadable")
       \/ \E fault \in Faults({"open"}) : readable /\ Raise("open_failed", fault)
    /\ UNCHANGED <<disk, readable, backup, alive, sheets_data, pending_deletions,
                   my_squad_updates, slip_updates, committed, returned, nedits,
                   nrestarts>>

\* the loop over pending_deletions: sort, delete_rows
DeleteRows ==
    /\ pc = "delete_rows"
    /\ \/ /\ workbook' = ProcessDeletions(workbook, pending_deletions)
          /\ pending_deletions' = SortedInPlace(workbook, pending_deletions)
          /\ Proceed
       \/ \E fault \in Faults({"edit"}) :
             /\ pending_deletions' = SortedInPlace(workbook, pending_deletions)
             /\ Raise("edit_failed", fault)
    /\ UNCHANGED <<disk, readable, backup, alive, sheets_data, my_squad_updates,
                   slip_updates, committed, returned, nedits, nrestarts>>

\* the update of the "My squad" row
SquadCounts ==
    /\ pc = "squad_counts"
    /\ IF my_squad_updates # EmptyMap /\ DecisionMatrix \in DOMAIN workbook
       THEN \E counts \in {UpdateSquadCounts(workbook[DecisionMatrix], my_squad_updates)} :
               \/ /\ ~counts.raised
                  /\ workbook' = [workbook EXCEPT ![DecisionMatrix] = counts.rows]
                  /\ Proceed
               \/ counts.raised /\ Raise("edit_failed", "none")
       ELSE workbook' = workbook /\ Proceed
    /\ UNCHANGED <<disk, readable, backup, alive, sheets_data, pending_deletions,
                   my_squad_updates, slip_updates, committed, returned, nedits,
                   nrestarts>>

\* the update of the "Slip" row
SlipValues ==
    /\ pc = "slip_values"
    /\ workbook' = IF slip_updates # EmptyMap /\ DecisionMatrix \in DOMAIN workbook
                   THEN [workbook EXCEPT ![DecisionMatrix] =
                            UpdateSlipCells(workbook[DecisionMatrix], slip_updates)]
                   ELSE workbook
    /\ Proceed
    /\ UNCHANGED <<disk, readable, backup, alive, sheets_data, pending_deletions,
                   my_squad_updates, slip_updates, committed, returned, nedits,
                   nrestarts>>

\* workbook.save(self.spreadsheet_path)
SaveWorkbook ==
    /\ pc = "save"
    /\ \/ /\ disk' = workbook /\ readable' = TRUE /\ committed' = TRUE
          /\ workbook' = workbook
          /\ Proceed
       \/ \E fault \in Faults({"save"}) : \E damaged \in BOOLEAN :
             /\ disk' = disk /\ readable' = ~damaged /\ committed' = committed
             /\ Raise("save_failed", fault)
    /\ UNCHANGED <<backup, alive, sheets_data, pending_deletions, my_squad_updates,
                   slip_updates, returned, nedits, nrestarts>>

\* workbook.close()
CloseWorkbook ==
    /\ pc = "close"
    /\ \/ workbook' = workbook /\ Proceed
       \/ \E fault \in Faults({"close"}) : Raise("close_failed", fault)
    /\ UNCHANGED <<disk, readable, backup, alive, sheets_data, pending_deletions,
                   my_squad_updates, slip_updates, committed, returned, nedits,
                   nrestarts>>

\* self._refresh_pandas_data(): a failure is caught there, the flush goes on
RefreshPandas ==
    /\ pc = "refresh"
    /\ \/ /\ sheets_data' = Refreshed(sheets_data, disk, Len(SheetNames(disk)))
          /\ UNCHANGED <<last, nfaults>>
       \/ \E fault \in Faults({"reload"}) :
          \E k \in 0..(Cardinality(DOMAIN disk) - 1) :
             /\ sheets_data' = Refreshed(sheets_data, disk, k)
             /\ last' = [last EXCEPT !.fault = fault]
             /\ nfaults' = nfaults + 1
    /\ pc' = StepAfter(pc)
    /\ UNCHANGED <<disk, readable, backup, alive, pending_deletions, my_squad_updates,
                   slip_updates, committed, workbook, returned, nedits, nflush,
                   nrestarts>>

\* the pending changes are cleared and save_spreadsheet returns
ClearChanges ==
    /\ pc = "clear"
    /\ \E cleared \in {ClearPending(Pending)} :
          /\ pending_deletions' = cleared.deletions
          /\ my_squad_updates' = cleared.squad
          /\ slip_updates' = cleared.slips
    /\ pc' = StepAfter(pc)
    /\ workbook' = EmptyMap
    /\ last' = [last EXCEPT !.outcome = IF last.fault = "reload"
                                        THEN "reload_failed" ELSE "ok"]
    /\ nflush' = nflush + 1
    /\ UNCHANGED <<disk, readable, backup, alive, sheets_data, committed, returned,
                   nedits, nfaults, nrestarts>>

StepNext ==
    \/ CallSave \/ LoadWorkbook \/ DeleteRows \/ SquadCounts \/ SlipValues
    \/ SaveWorkbook \/ CloseWorkbook \/ RefreshPandas \/ ClearChanges

StepSpec == Init /\ [][StepNext]_vars

\* ------------------------------------------------- the marking methods
\* remove_player_rows and pick_player_for_team called with the matches of a
\* search and a selection, as the handlers of the menu choices 3 and 4 call
\* them; returned holds the arguments, the count the method returned and the
\* pending edits before the call.
CanMark == alive /\ pc = "menu" /\ nedits < MaxEdits

MarkedOnly ==
    UNCHANGED <<disk, readable, backup, alive, sheets_data, slip_updates, last,
                committed, pc, workbook, nflush, nfaults, nrestarts>>

CallRemove ==
    /\ CanMark
    /\ \E q \in Queries :
        \E ms \in {search_player_by_last_name(sheets_data, q)} :
        \E sel \in Selections(Len(ms)) :
            /\ ms # <<>>
            /\ \E r \in {remove_player_rows(pending_deletions, ms, sel)} :
                /\ nedits + r.count <= MaxEdits
                /\ nedits' = nedits + r.count
                /\ pending_deletions' = r.deletions
                /\ returned' = [call |-> "remove", matches |-> ms, indices |-> sel,
                                count |-> r.count, before |-> Pending]
    /\ UNCHANGED my_squad_updates
    /\ MarkedOnly

CallPick ==
    /\ CanMark
    /\ \E q \in Queries :
        \E ms \in {search_player_by_last_name(sheets_data, q)} :
        \E sel \in Selections(Len(ms)) :
            /\ ms # <<>>
            /\ \E r \in {pick_player_for_team(pending_deletions, my_squad_updates, ms, sel)} :
                /\ nedits + r.count <= MaxEdits
                /\ nedits' = nedits + r.count
                /\ pending_deletions' = r.deletions
                /\ my_squad_updates' = r.squad
                /\ returned' = [call |-> "pick", matches |-> ms, indices |-> sel,
                                count |-> r.count, before |-> Pending]
    /\ MarkedOnly

MarkNext == CallRemove \/ CallPick

MarkSpec == Init /\ [][MarkNext]_vars

\* ================================================================ claims
Positions(rows_to_delete) == {rows_to_delete[i] : i \in DOMAIN rows_to_delete}

HasDuplicates(rows_to_delete) ==
    \E i, j \in DOMAIN rows_to_delete : i # j /\ rows_to_delete[i] = rows_to_delete[j]

\* the rows of a sheet that do not occupy one of the worksheet rows P
Kept(rows, P) ==
    LET keep(i) == IF (i + 1) \in P THEN <<>> ELSE << rows[i] >>
    IN  ConcatMap(keep, [i \in 1..Len(rows) |-> i])

\* the first cell of every row: the flush never writes column A
FirstColumn(sheet_name, rows) ==
    [i \in 1..Len(rows) |-> rows[i][Columns(sheet_name)[1]]]

\* the sheet has exactly the rows of before that are not at a position of P
OnlyRemoved(sheet_name, P) ==
    /\ FirstColumn(sheet_name, disk[sheet_name])
          = FirstColumn(sheet_name, Kept(last.disk[sheet_name], P))
    /\ sheet_name # DecisionMatrix
          => disk[sheet_name] = Kept(last.disk[sheet_name], P)

Flushed == last.outcome \notin {"", "noop"} /\ last.op # "start"

DeletedSheets == (DOMAIN last.marked.deletions) \cap (DOMAIN last.disk)

\* the two lists hold the same entries, each as often
SameEntries(s1, s2) ==
    /\ Len(s1) = Len(s2)
    /\ \A x \in Positions(s1) \cup Positions(s2) :
          Cardinality({i \in DOMAIN s1 : s1[i] = x})
              = Cardinality({i \in DOMAIN s2 : s2[i] = x})

PendingIs(p) ==
    /\ DOMAIN pending_deletions = DOMAIN p.deletions
    /\ \A sheet_name \in DOMAIN p.deletions :
          SameEntries(pending_deletions[sheet_name], p.deletions[sheet_name])
    /\ my_squad_updates = p.squad
    /\ slip_updates = p.slips

\* C1: when a row of a table is marked for deletion twice before a flush
\* (and no other row of that table is marked), the flush deletes exactly
\* that one row from the table.
C1_IdempotentMarking ==
    \A sheet_name \in DeletedSheets :
        LET rows_to_delete == last.marked.deletions[sheet_name]
        IN  (/\ Flushed /\ Persisted(last.outcome)
             /\ HasDuplicates(rows_to_delete)
             /\ Cardinality(Positions(rows_to_delete)) = 1)
            => OnlyRemoved(sheet_name, Positions(rows_to_delete))

\* C2: for distinct marked positions of one table, in any marking order, the
\* table after the flush is the table before it without the rows that
\* occupied the marked positions, the other rows in their original order.
C2_DeletionOrder ==
    \A sheet_name \in DeletedSheets :
        LET rows_to_delete == last.marked.deletions[sheet_name]
        IN  (Flushed /\ Persisted(last.outcome) /\ ~HasDuplicates(rows_to_delete))
            => OnlyRemoved(sheet_name, Positions(rows_to_delete))

\* two rows of one table were marked in ascending order and both deleted
C2_Witness ==
    /\ Flushed /\ Persisted(last.outcome)
    /\ "QBs" \in DeletedSheets
    /\ last.marked.deletions["QBs"] = <<2, 3>>
    /\ Len(disk["QBs"]) = Len(last.disk["QBs"]) - 2

\* C3: a flush that succeeds leaves the three maps of pending edits empty;
\* a flush that fails before the persist step leaves them with the content
\* they had when it began.
C3_ClearOrRetain ==
    /\ (Flushed /\ last.outcome \in {"ok", "reload_failed"}) => NothingPending
    /\ (Flushed /\ last.outcome \in {"open_failed", "edit_failed"})
          => PendingIs(last.marked)

\* a flush failed before the persist step with all three maps filled
C3_Witness ==
    /\ Flushed /\ last.outcome = "edit_failed"
    /\ last.marked.deletions # EmptyMap
    /\ last.marked.squad # EmptyMap /\ last.marked.slips # EmptyMap
    /\ ~NothingPending

\* the row labelled "my squad" of a workbook; <<>> when there is none
SquadRow(wb) ==
    IF DecisionMatrix \in DOMAIN wb /\ FindRow(wb[DecisionMatrix], my_squad) # 0
    THEN << wb[DecisionMatrix][FindRow(wb[DecisionMatrix], my_squad)] >>
    ELSE <<>>

MaxPicked == 12
\* the cell holds the text "<picked>/<limit>"
Holds(cell, picked, limit) == cell = Txt(IntStr(picked) \o <<"/">> \o limit)
Limits == { <<"1","0">>, <<"2">>, <<"0">> }

Delta(position) ==
    IF position \in DOMAIN last.marked.squad THEN last.marked.squad[position] ELSE 0

\* C4: a "my squad" cell that reads "<p>/<l>" reads "<p+d>/<l>" after a flush
\* that persisted, d being the delta pending for its category; the cells of
\* the categories without a delta are unchanged.
C4_CounterRoundTrip ==
    (Flushed /\ Persisted(last.outcome))
    => \A before \in {SquadRow(last.disk)} : \A after \in {SquadRow(disk)} :
          (before # <<>> /\ after # <<>>)
          => \A position \in DOMAIN pos_to_col :
                /\ \A picked \in 0..MaxPicked : \A limit \in Limits :
                      Holds(before[1][position], picked, limit)
                      => Holds(after[1][position], picked + Delta(position), limit)
                /\ Delta(position) = 0 => after[1][position] = before[1][position]

\* the cell "3/10" with a delta of +2 has become "5/10"
C4_Witness ==
    /\ Flushed /\ last.outcome = "ok"
    /\ SquadRow(last.disk) # <<>> /\ SquadRow(disk) # <<>>
    /\ Holds(SquadRow(last.disk)[1]["QB"], 3, <<"1","0">>)
    /\ Delta("QB") = 2
    /\ Holds(SquadRow(disk)[1]["QB"], 5, <<"1","0">>)
    /\ Delta("RB") = 0

\* the cell is empty or is no "X/Y" with an integer X
Unparseable(cell) ==
    \/ ~Truthy(cell)
    \/ ~Contains(StrOf(cell), <<"/">>)
    \/ Len(Split(StrOf(cell))) # 2
    \/ ~IntParses(Split(StrOf(cell))[1])

StartsWith(s, prefix) == Len(s) >= Len(prefix) /\ SubSeq(s, 1, Len(prefix)) = prefix

\* C5: when a "my squad" cell with a pending delta is empty or is no "X/Y",
\* the flush counts from 0, writes "<delta>/..." and does not fail: it
\* completes and the pending edits are cleared.
C5_UnparseableCounter ==
    \A position \in DOMAIN last.marked.squad :
        (/\ Flushed /\ last.fault = "none"
         /\ DecisionMatrix \notin DOMAIN last.marked.deletions
         /\ SquadRow(last.disk) # <<>>
         /\ Unparseable(SquadRow(last.disk)[1][position]))
        => /\ last.outcome = "ok"
           /\ NothingPending
           /\ SquadRow(disk) # <<>>
           /\ SquadRow(disk)[1][position].t = "s"
           /\ StartsWith(SquadRow(disk)[1][position].s,
                         IntStr(last.marked.squad[position]) \o <<"/">>)

\* C6: a pick of rows of a table without a category is rejected: no deletion
\* and no delta is added and the pick is not counted.
C6_PickRejected ==
    (/\ last.op = "pick" /\ last.marks # <<>>
     /\ \A i \in DOMAIN last.marks : last.marks[i].sheet \notin DOMAIN position_map)
    => (last.count = 0 /\ last.marked = last.before)

\* C7: what a committed flush wrote is in the workbook that the next process
\* loads: the start of a process does not change the primary workbook.
C7_Durable ==
    (last.op = "start" /\ last.outcome = "ok" /\ committed)
    => (disk = last.disk /\ sheets_data = ReadExcel(last.disk))

\* C8: once the persist step of a flush has succeeded, the pending edits are
\* cleared, also when a later step of the flush fails.
C8_CommittedCleared ==
    (Flushed /\ Persisted(last.outcome)) => NothingPending

\* C9: a flush that fails before the persist step leaves the persisted
\* workbook as it was before the attempt.
C9_NoPartialWrite ==
    (Flushed /\ last.outcome \in {"open_failed", "edit_failed"}) => disk = last.disk

\* a flush failed after it had deleted rows and updated nothing on disk
C9_Witness ==
    /\ Flushed /\ last.outcome = "edit_failed"
    /\ ProcessDeletions(last.disk, last.marked.deletions) # last.disk
    /\ disk = last.disk

\* C10: with deltas pending and no Decision Matrix or no "my squad" row, the
\* flush succeeds: the deletions are persisted, the deltas are dropped and
\* the pending edits end empty.
C10_MissingSummary ==
    (/\ Flushed /\ last.fault = "none"
     /\ last.marked.squad # EmptyMap
     /\ SquadRow(last.disk) = <<>>)
    => /\ last.outcome = "ok"
       /\ NothingPending
       /\ \A sheet_name \in DeletedSheets :
             ~HasDuplicates(last.marked.deletions[sheet_name])
             => OnlyRemoved(sheet_name, Positions(last.marked.deletions[sheet_name]))
       /\ \A sheet_name \in (DOMAIN last.disk) \ DeletedSheets :
             last.marked.slips = EmptyMap => disk[sheet_name] = last.disk[sheet_name]

\* a pick was flushed into a workbook without a row "my squad"
C10_Witness ==
    /\ Flushed /\ last.outcome = "ok" /\ last.op = "pick"
    /\ last.marked.squad # EmptyMap
    /\ SquadRow(last.disk) = <<>>
    /\ DecisionMatrix \in DOMAIN last.disk
    /\ \E sheet_name \in DeletedSheets : Len(disk[sheet_name]) < Len(last.disk[sheet_name])

\* C11: search never returns a record of the Decision Matrix, so no handler
\* marks a row of the Decision Matrix and no flush deletes one.
C11_SummaryNotSearched ==
    /\ \A i \in DOMAIN last.marks : last.marks[i].sheet # DecisionMatrix
    /\ DecisionMatrix \notin DOMAIN pending_deletions
    /\ (Flushed /\ DecisionMatrix \in DOMAIN last.disk)
          => Len(disk[DecisionMatrix]) = Len(last.disk[DecisionMatrix])

Searched == returned.call = "search"

\* C12: for a query that is not empty, the records of one table are adjacent
\* in the result and their row identities do not decrease along it.
C12_SearchOrder ==
    (Searched /\ Strip(returned.last_name) # <<>>) =>
        \A i, j \in DOMAIN returned.matches :
            (i < j /\ returned.matches[i].sheet = returned.matches[j].sheet)
            => /\ returned.matches[i].index <= returned.matches[j].index
               /\ \A k \in i..j : returned.matches[k].sheet = returned.matches[i].sheet

\* C13: a query that is empty after trimming yields no match.
C13_EmptyQuery ==
    (Searched /\ Strip(returned.last_name) = <<>>) => returned.matches = <<>>

\* C14: after a flush that persisted and reloaded without a failure, the
\* tables in memory are the tables of the persisted workbook, table by table
\* and row by row.
C14_Convergent ==
    (Flushed /\ last.outcome = "ok")
    => /\ sheets_data = ReadExcel(disk)
       /\ \A sheet_name \in DOMAIN disk :
             Len(sheets_data[sheet_name]) = Len(disk[sheet_name])

\* C14 as stated: the same after every flush whose persist step succeeded,
\* whatever happened to its later steps.
C14_ConvergentAfterPersist ==
    (Flushed /\ Persisted(last.outcome)) => sheets_data = ReadExcel(disk)

\* a flush deleted a row and the tables in memory follow
C14_Witness ==
    /\ Flushed /\ last.outcome = "ok"
    /\ "QBs" \in DeletedSheets
    /\ Len(disk["QBs"]) < Len(last.disk["QBs"])
    /\ Len(sheets_data["QBs"]) = Len(disk["QBs"])
    /\ sheets_data # ReadExcel(last.disk)

\* the values present in the column Points of a table, in row order
PresentValues(sd, pos) ==
    LET df == sd[sheet_map[pos]]
        present == SelectSeq(df, LAMBDA row : row["Points"].t = "n")
    IN  [i \in 1..Len(present) |-> present[i]["Points"].n]

\* the value of rank r (rank 0 = the highest) among the values vals
ValueAtRank(vals, r) ==
    CHOOSE v \in {vals[i] : i \in DOMAIN vals} :
        /\ Cardinality({i \in DOMAIN vals : vals[i] > v}) <= r
        /\ r < Cardinality({i \in DOMAIN vals : vals[i] >= v})

\* the threshold rank of a category: the number in its cell of the row
\* "slip"; <<>> when the cell is absent, empty or no number
ThresholdRank(sd, pos) ==
    IF DecisionMatrix \notin DOMAIN sd \/ FindRow(sd[DecisionMatrix], slip) = 0 THEN <<>>
    ELSE LET cell == sd[DecisionMatrix][FindRow(sd[DecisionMatrix], slip)][pos]
         IN  IF cell.t = "n" THEN << cell.n >>
             ELSE IF cell.t = "s" /\ IntParses(cell.s) THEN << IntOf(cell.s) >>
             ELSE <<>>

\* C15: top is the highest value; threshold is the value at the threshold
\* rank when the rank is a number >= 0 and a row of that rank exists, and
\* "N/A" otherwise; diff is top minus threshold when both are available.
C15_ThresholdValue ==
    returned.call = "compute" =>
        \A pos \in DOMAIN returned.computed_data :
            \A vals \in {PresentValues(sheets_data, pos)} :
            \A rank \in {ThresholdRank(sheets_data, pos)} :
                LET out == returned.computed_data[pos]
                    ranked == rank # <<>> /\ rank[1] >= 0 /\ rank[1] < Len(vals)
                IN  /\ vals = <<>> => out = NotAvailable
                    /\ vals # <<>> => out.top_player = IntStr(ValueAtRank(vals, 0))
                    /\ ranked =>
                          /\ out.lower_player = IntStr(ValueAtRank(vals, rank[1]))
                          /\ out.diff = IntStr(ValueAtRank(vals, 0)
                                                 - ValueAtRank(vals, rank[1]))
                    /\ ~ranked => (out.lower_player = NA /\ out.diff = NA)

\* the stored value of a statistic of a category; <<>> for a placeholder
\* (no such row, an empty cell or the text "N/A")
Stored(wb, row_label, pos) ==
    IF DecisionMatrix \notin DOMAIN wb \/ LastRow(wb[DecisionMatrix], row_label) = 0
    THEN <<>>
    ELSE LET cell == wb[DecisionMatrix][LastRow(wb[DecisionMatrix], row_label)][pos]
         IN  IF cell.t = "e" \/ cell = Txt(NA) THEN <<>> ELSE << StrOf(cell) >>

\* C16: a category with a usable stored top value shows its stored values;
\* a category whose three stored values are all placeholders shows the
\* locally computed top value, whatever the other categories have stored.
C16_FallbackPerCategory ==
    (returned.call = "summary" /\ ~returned.failed /\ returned.shown # <<>>) =>
        \A pos \in DOMAIN sheet_map :
            LET out == returned.shown[1][pos]
                top == Stored(disk, top_player, pos)
                lower == Stored(disk, lower_player, pos)
                delta == Stored(disk, diff, pos)
            IN  /\ top # <<>> => out.top_player = top[1]
                /\ (/\ top = <<>> /\ lower = <<>> /\ delta = <<>>
                    /\ sheet_map[pos] \in DOMAIN sheets_data
                    /\ PresentValues(sheets_data, pos) # <<>>)
                   => out.top_player
                         = IntStr(ValueAtRank(PresentValues(sheets_data, pos), 0))

\* the text after the first slash
RECURSIVE AfterSlash(_)
AfterSlash(s) ==
    IF s = <<>> THEN <<>>
    ELSE IF Head(s) = "/" THEN Tail(s) ELSE AfterSlash(Tail(s))

\* the limit part of a "my squad" cell: << the text after the slash >>, and
\* <<>> for a cell without a limit (empty, a number, a text without slash)
LimitOf(cell) ==
    IF cell.t = "s" /\ Contains(cell.s, <<"/">>) THEN << AfterSlash(cell.s) >> ELSE <<>>

\* C17: no flush changes the limit part of a "my squad" cell, whatever the
\* cell held before, an empty cell included.
C17_LimitUnchanged ==
    (Flushed /\ DecisionMatrix \notin DOMAIN last.marked.deletions) =>
        \A before \in {SquadRow(last.disk)} : \A after \in {SquadRow(disk)} :
            (before # <<>> /\ after # <<>>)
            => \A position \in DOMAIN pos_to_col :
                  LimitOf(after[1][position]) = LimitOf(before[1][position])

\* the pending deletions of a table and the pending delta of a category
DeletionsOf(p, sheet_name) ==
    IF sheet_name \in DOMAIN p.deletions THEN p.deletions[sheet_name] ELSE <<>>
DeltaOf(p, position) ==
    IF position \in DOMAIN p.squad THEN p.squad[position] ELSE 0

\* the persisted positions (identity + 2) of the picked rows of a table, in
\* the order in which they were picked
PickedPositions(sheet_name) ==
    LET own == SelectSeq(last.marks, LAMBDA m : m.sheet = sheet_name)
    IN  [i \in 1..Len(own) |-> own[i].index + 2]

PickedIn(position) ==
    Cardinality({i \in DOMAIN last.marks :
                    /\ last.marks[i].sheet \in DOMAIN position_map
                    /\ position_map[last.marks[i].sheet] = position})

PickedSheets == {last.marks[i].sheet : i \in DOMAIN last.marks}

\* C18: a pick of rows of mapped tables appends, per picked row of identity
\* r, the position r + 2 to the deletions of its table and adds 1 to the
\* delta of its category; the deletions of the other tables, the deltas of
\* the other categories and the scalar overwrites stay as they were.
C18_PickFrame ==
    (last.op = "pick" /\ PickedSheets \subseteq DOMAIN position_map) =>
        /\ DOMAIN last.marked.deletions = (DOMAIN last.before.deletions) \cup PickedSheets
        /\ \A sheet_name \in DOMAIN last.marked.deletions :
              last.marked.deletions[sheet_name]
                  = DeletionsOf(last.before, sheet_name) \o PickedPositions(sheet_name)
        /\ DOMAIN last.marked.squad
              = (DOMAIN last.before.squad)
                    \cup {position_map[sheet_name] : sheet_name \in PickedSheets}
        /\ \A position \in DOMAIN pos_to_col :
              DeltaOf(last.marked, position)
                  = DeltaOf(last.before, position) + PickedIn(position)
        /\ last.marked.slips = last.before.slips
        /\ last.count = Len(last.marks)

\* two rows of QBs were picked in one call: two positions and a delta of 2
C18_Witness ==
    /\ last.op = "pick" /\ Len(last.marks) = 2
    /\ PickedSheets = {"QBs"}
    /\ last.marks[1].index # last.marks[2].index
    /\ DeltaOf(last.marked, "QB") = DeltaOf(last.before, "QB") + 2
    /\ Len(DeletionsOf(last.marked, "QBs")) = Len(DeletionsOf(last.before, "QBs")) + 2
    /\ DeltaOf(last.marked, "RB") = 0

\* C19: every row a persisted flush deletes for the handler that ran it is
\* the row the user selected: the persisted workbook held, at position
\* identity + 2, the payload of the chosen match record.
C19_FreshIdentities ==
    (Flushed /\ Persisted(last.outcome)) =>
        \A i \in DOMAIN last.marks :
            LET m == last.marks[i]
            IN  /\ m.sheet \in DOMAIN last.disk
                /\ m.index + 1 <= Len(last.disk[m.sheet])
                /\ last.disk[m.sheet][m.index + 1] = m.row_data

\* the order of the statements of one flush
FlushOrder == << "menu", "load_workbook", "delete_rows", "squad_counts",
                 "slip_values", "save", "close", "refresh", "clear" >>

\* the workbook with all the edits of p applied
AllEditsApplied(wb, p) ==
    LET wb1 == ProcessDeletions(wb, p.deletions)
        wb2 == IF p.squad # EmptyMap /\ DecisionMatrix \in DOMAIN wb1
               THEN [wb1 EXCEPT ![DecisionMatrix] =
                        UpdateSquadCounts(wb1[DecisionMatrix], p.squad).rows]
               ELSE wb1
    IN  IF p.slips # EmptyMap /\ DecisionMatrix \in DOMAIN wb2
        THEN [wb2 EXCEPT ![DecisionMatrix] = UpdateSlipCells(wb2[DecisionMatrix], p.slips)]
        ELSE wb2

\* one step of a flush: the statements run in the order of FlushOrder and
\* a flush ends at the menu; the file changes only in the statement save and
\* then holds all the edits of the flush; the pending edits are emptied only
\* in the statement clear, when the file holds the saved workbook
StepInOrder ==
    /\ (pc' # pc /\ pc' # "menu")
          => \E i \in 1..(Len(FlushOrder) - 1) : pc = FlushOrder[i] /\ pc' = FlushOrder[i + 1]
    /\ disk' # disk
          => /\ pc = "save" /\ pc' = "close"
             /\ disk' = AllEditsApplied(disk, last.marked)
    /\ (Pending # NoEdits /\ Pending' = NoEdits)
          => /\ pc = "clear"
             /\ committed
             /\ disk = workbook
             /\ disk = AllEditsApplied(last.disk, last.marked)

\* C20: within a flush the steps run in the order open, delete rows, update
\* counters, overwrite scalars, persist, reload, clear; the persist writes
\* the workbook with all edits applied, and the pending edits are cleared
\* only after the persist.
C20_FlushStepOrder == [][StepInOrder]_vars

\* a flush with deletions, deltas and overwrites has persisted and not yet
\* cleared its pending edits
C20_Witness ==
    /\ pc = "clear"
    /\ pending_deletions # EmptyMap /\ my_squad_updates # EmptyMap
    /\ slip_updates # EmptyMap
    /\ disk = workbook /\ disk # last.disk
    /\ disk = AllEditsApplied(last.disk, last.marked)

\* ---------------------------------------------------------------- C21
\* a step that constructs a new process and runs load_spreadsheet
Started == nrestarts' # nrestarts

\* the workbook the tables are read from at a start, by the restore-on-start policy
StartContent == IF backup.exists THEN backup.wb ELSE disk

\* C21: at a start, when a backup file exists the primary workbook holds the
\* backup's content before any table is loaded, and the backup file keeps its
\* content; when no backup exists the primary workbook is loaded unmodified.
C21_RestoreOnStart ==
    [][Started =>
          /\ backup' = backup
          /\ disk' = StartContent
          /\ alive' => sheets_data' = ReadExcel(StartContent)]_vars

\* C21 when the copy of the backup did not raise: a start has replaced a
\* primary workbook that differed from the backup
C21_Restored ==
    /\ last.op = "start"
    /\ alive
    /\ backup.exists
    /\ last.disk # backup.wb
    /\ disk = backup.wb
    /\ sheets_data = ReadExcel(backup.wb)

\* ---------------------------------------------------------------- C22
\* the "slip" row of a Decision Matrix sheet, if it has one
SlipRowOf(wb) ==
    IF DecisionMatrix \in DOMAIN wb /\ FindRow(wb[DecisionMatrix], slip) # 0
    THEN << wb[DecisionMatrix][FindRow(wb[DecisionMatrix], slip)] >>
    ELSE <<>>

\* the slip values entered by the handler are the pending ones, the others
\* are those that were pending before
LatestWins(before, input, marked) ==
    /\ DOMAIN marked = (DOMAIN before) \cup (DOMAIN input)
    /\ \A position \in DOMAIN input : marked[position] = input[position]
    /\ \A position \in (DOMAIN before) \ (DOMAIN input) :
          marked[position] = before[position]

\* C22: slip values set twice before a flush succeeds are last-write-wins, and
\* a flush that persisted has written, into the "slip" row left after its
\* deletions, the pending value of each position as the number it is and has
\* left the cells of the positions without a pending value as they were.
C22_LastWriteWins ==
    /\ last.op = "slip" =>
          \E input \in SlipInputs :
              LatestWins(last.before.slips, input, last.marked.slips)
    /\ (Flushed /\ Persisted(last.outcome) /\ last.marked.slips # EmptyMap) =>
          \A before \in {SlipRowOf(ProcessDeletions(last.disk, last.marked.deletions))} :
              /\ Len(before) = Len(SlipRowOf(disk))
              /\ before # <<>> =>
                    \A position \in Positions(positions) :
                        SlipRowOf(disk)[1][position] =
                            IF position \in DOMAIN last.marked.slips
                            THEN Num(last.marked.slips[position])
                            ELSE before[1][position]

\* a flush that failed left a slip value pending for QB, the next slip update
\* set another one and its flush wrote the later value over a cell that held
\* neither
C22_Witness ==
    /\ last.op = "slip"
    /\ last.outcome = "ok"
    /\ "QB" \in DOMAIN last.before.slips
    /\ last.marked.slips["QB"] # last.before.slips["QB"]
    /\ SlipRowOf(last.disk) # <<>>
    /\ SlipRowOf(last.disk)[1]["QB"] \notin
           {Num(last.before.slips["QB"]), Num(last.marked.slips["QB"])}
    /\ SlipRowOf(disk)[1]["QB"] = Num(last.marked.slips["QB"])
    /\ SlipRowOf(disk)[1]["WR"] = SlipRowOf(last.disk)[1]["WR"]

\* ---------------------------------------------------------------- C23
\* a step in which save_spreadsheet was called directly
SaveCalled == last'.op = "save" /\ last' # last

\* C23: save_spreadsheet called while the pending deletions, the counter
\* deltas and the slip updates are all empty does nothing: the persisted
\* workbook is neither opened nor written, the tables are not read again and
\* the state of the manager stays as it was.
C23_EmptyFlushNoOp ==
    [][(NothingPending /\ SaveCalled) =>
          /\ last'.outcome = "noop"
          /\ UNCHANGED <<disk, readable, backup, alive, sheets_data,
                         pending_deletions, my_squad_updates, slip_updates,
                         committed, nflush, nfaults>>]_vars

\* save_spreadsheet was called with nothing pending while the tables in
\* memory were stale after a flush whose reload had failed, and they still are
C23_Witness ==
    /\ last.op = "save"
    /\ last.outcome = "noop"
    /\ NothingPending
    /\ committed
    /\ disk = last.disk
    /\ sheets_data # ReadExcel(disk)

\* ---------------------------------------------------------------- C24
\* save_spreadsheet ended in its except clause
FlushFailed(outcome) ==
    outcome \in {"open_failed", "edit_failed", "save_failed", "close_failed"}

\* a step in which a handler called save_spreadsheet with something pending
FlushAttempted == nflush' # nflush

\* a step of a remove or pick handler that marked a row, or of a slip update
EditDone ==
    /\ last' # last
    /\ \/ last'.op \in {"remove", "pick"} /\ last'.count > 0
       \/ last'.op = "slip"

\* the edits p are among the edits q: the deletions of p head the lists of q,
\* the deltas of q are not below those of p, the positions with a slip
\* value in p have one in q
Includes(q, p) ==
    /\ \A sheet_name \in DOMAIN p.deletions :
          /\ sheet_name \in DOMAIN q.deletions
          /\ Len(p.deletions[sheet_name]) <= Len(q.deletions[sheet_name])
          /\ SubSeq(q.deletions[sheet_name], 1, Len(p.deletions[sheet_name]))
                 = p.deletions[sheet_name]
    /\ \A position \in DOMAIN p.squad :
          /\ position \in DOMAIN q.squad
          /\ q.squad[position] >= p.squad[position]
    /\ DOMAIN p.slips \subseteq DOMAIN q.slips

\* C24: every remove, pick or slip update that marked something is followed
\* in the same handler by a flush attempt; back at the menu the pending edits
\* are empty unless the most recent flush attempt failed (a handler without a
\* flush attempt leaves them as they were or, at a start, empty); and a flush
\* attempt begins with all the edits that were pending before its handler.
C24_MenuInvariant ==
    [][/\ EditDone => FlushAttempted
       /\ FlushAttempted => (NothingPending' \/ FlushFailed(last'.outcome))
       /\ ~FlushAttempted =>
             \/ NothingPending'
             \/ UNCHANGED <<pending_deletions, my_squad_updates, slip_updates>>
       /\ FlushAttempted => Includes(last'.marked, Pending)]_vars

\* a flush failed and left a deletion pending; the next remove or pick marked
\* one more row of that table and its flush, begun with both, cleared them
C24_Witness ==
    /\ last.op \in {"remove", "pick"}
    /\ last.outcome = "ok"
    /\ NothingPending
    /\ \E sheet_name \in DOMAIN last.before.deletions :
          /\ last.before.deletions[sheet_name] # <<>>
          /\ Len(last.marked.deletions[sheet_name])
                 > Len(last.before.deletions[sheet_name])

\* ---------------------------------------------------------------- C25
\* the indices of the selection that lie in 0..len(matches)-1, in its order
InRangePart(ms, indices) ==
    SelectSeq(indices, LAMBDA i : i \in 0..(Len(ms) - 1))

\* the persisted positions of the selected matches of a table
MarkedIn(ms, chosen, sheet_name) ==
    LET own == SelectSeq(chosen, LAMBDA i : ms[i + 1].sheet = sheet_name)
    IN  [j \in 1..Len(own) |-> ms[own[j] + 1].index + 2]

\* how many of the selected matches count for a position
CountedFor(ms, chosen, position) ==
    Cardinality({j \in DOMAIN chosen :
                    /\ ms[chosen[j] + 1].sheet \in DOMAIN position_map
                    /\ position_map[ms[chosen[j] + 1].sheet] = position})

\* C25: remove_player_rows and pick_player_for_team ignore every index of the
\* selection outside 0..len(matches)-1, the -1 that the input 0 gives included:
\* the pending deletions and counter deltas after the call are those before it
\* plus the ones of the in-range indices, and the count returned is the
\* number of in-range indices.
C25_OutOfRangeIgnored ==
    returned.call \in {"remove", "pick"} =>
        \A chosen \in {InRangePart(returned.matches, returned.indices)} :
            /\ returned.count = Len(chosen)
            /\ chosen = <<>> => Pending = returned.before
            /\ DOMAIN pending_deletions =
                   (DOMAIN returned.before.deletions)
                       \cup {returned.matches[chosen[j] + 1].sheet : j \in DOMAIN chosen}
            /\ \A sheet_name \in DOMAIN pending_deletions :
                  pending_deletions[sheet_name] =
                      DeletionsOf(returned.before, sheet_name)
                          \o MarkedIn(returned.matches, chosen, sheet_name)
            /\ \A position \in Positions(positions) :
                  DeltaOf(Pending, position) =
                      DeltaOf(returned.before, position)
                          + (IF returned.call = "pick"
                             THEN CountedFor(returned.matches, chosen, position)
                             ELSE 0)
            /\ slip_updates = returned.before.slips

\* a pick with the selection "0,1": the index -1 is ignored, the first match
\* is marked and counted
C25_Witness ==
    /\ returned.call = "pick"
    /\ returned.indices = <<0 - 1, 0>>
    /\ returned.count = 1
    /\ Pending # returned.before
    /\ my_squad_updates # returned.before.squad

====
